---- MODULE Spec2Model ----
(***************************************************************************)
(* Model of bamnostic/utils.py: the BGZF virtual offset codec              *)
(* (make_virtual_offset, split_virtual_offset), the LruDict cache, the     *)
(* CIGAR parser (parse_cigar) and the two reference reconstructors         *)
(* (cigar_changes, md_changes).                                            *)
(*                                                                         *)
(* Four specifications share the variables below; each one exercises one   *)
(* component and leaves the variables of the others at their idle value.   *)
(*   Spec       LruDict: __init__, __setitem__, __getitem__                *)
(*   SpecVO     make_virtual_offset / split_virtual_offset                 *)
(*   SpecMD     md_changes                                                 *)
(*   SpecCigar  parse_cigar / cigar_changes                                *)
(***************************************************************************)
EXTENDS Integers, Sequences, FiniteSets, TLC

VARIABLES
    max_cache,  \* LruDict.max_cache
    legacy,     \* outcome of float(_PY_VERSION[:3]) <= 3.2 in __getitem__
    od,         \* the OrderedDict contents, oldest entry first
    lastOp,     \* the most recent call on the LruDict and what it returned
    prevOp,     \* the call before that
    vo_pc,      \* virtual offset run: "idle", "start", "made", "done"
    block_start_offset,     \* argument of make_virtual_offset
    within_block_offset,    \* argument of make_virtual_offset
    virtual_offset,         \* what make_virtual_offset returned or raised
    vo_split,   \* what split_virtual_offset returned: <<coffset, uoffset>>
    md_pc,      \* md_changes run: "idle", "start", "done"
    md_seq,     \* argument seq of md_changes
    md_tag,     \* argument md_tag of md_changes
    ref_seq,    \* what md_changes returned
    cg_pc,      \* CIGAR run: "idle", "start", "parsed", "done"
    cg_seq,     \* argument seq of cigar_changes
    cigar,      \* argument cigar of cigar_changes: a str or a list
    cigar_array,            \* what parse_cigar returned or raised
    cigar_formatted_ref     \* what cigar_changes returned or raised

lruVars == <<max_cache, legacy, od, lastOp, prevOp>>

voVars == <<vo_pc, block_start_offset, within_block_offset, virtual_offset,
            vo_split>>

mdVars == <<md_pc, md_seq, md_tag, ref_seq>>

cgVars == <<cg_pc, cg_seq, cigar, cigar_array, cigar_formatted_ref>>

vars == <<max_cache, legacy, od, lastOp, prevOp,
          vo_pc, block_start_offset, within_block_offset, virtual_offset,
          vo_split,
          md_pc, md_seq, md_tag, ref_seq,
          cg_pc, cg_seq, cigar, cigar_array, cigar_formatted_ref>>

----------------------------------------------------------------------------
(* Bounds of the LruDict model *)

MaxCap == 2     \* max_cache ranges over 0..MaxCap
MaxKey == 3     \* keys are 1..MaxKey
MaxVal == 2     \* stored values are 1..MaxVal

Keys == 1..MaxKey
Values == 1..MaxVal

\* Python's None, as returned by __getitem__ for a missing key
None == 0

----------------------------------------------------------------------------
(* collections.OrderedDict, as far as LruDict uses it *)

OdKeys(d) == {d[i].key : i \in 1..Len(d)}

OdHas(d, k) == k \in OdKeys(d)

OdIndex(d, k) == CHOOSE i \in 1..Len(d) : d[i].key = k

\* OrderedDict.__getitem__ for a key that is present
OdValue(d, k) == d[OdIndex(d, k)].value

\* the key -> value mapping, without the order
OdItems(d) == {<<d[i].key, d[i].value>> : i \in 1..Len(d)}

OdRemoveAt(d, i) == SubSeq(d, 1, i - 1) \o SubSeq(d, i + 1, Len(d))

\* OrderedDict.__setitem__: a new key is appended, an existing key keeps
\* its position and only its value changes
OdSetItem(d, k, v) ==
    IF OdHas(d, k)
    THEN [d EXCEPT ![OdIndex(d, k)].value = v]
    ELSE Append(d, [key |-> k, value |-> v])

\* OrderedDict.pop(key) for a key that is present, as documented: the key
\* is removed and its value returned, without a call of the subclass's
\* __getitem__
OdPop(d, k) == OdRemoveAt(d, OdIndex(d, k))

\* OrderedDict.move_to_end(key) for a key that is present
OdMoveToEnd(d, k) == Append(OdPop(d, k), d[OdIndex(d, k)])

\* OrderedDict.popitem(last=False)
OdPopFirst(d) == Tail(d)

----------------------------------------------------------------------------
(* LruDict *)

Max(a, b) == IF a >= b THEN a ELSE b

\* overflow = max(0, len(self) - self.max_cache), 0 when max_cache is falsy
OverflowOffByOne(d, mc) == IF mc # 0 THEN Max(0, Len(d) - mc - 1) ELSE 0
OverflowIgnoresUnbounded(d, mc) == Max(0, Len(d) - mc)
Overflow(d, mc) == IF mc # 0 THEN Max(0, Len(d) - mc) ELSE 0

RECURSIVE PopFirstN(_, _)
PopFirstN(d, n) == IF n = 0 THEN d ELSE PopFirstN(OdPopFirst(d), n - 1)

\* LruDict.cull
Cull(d, mc) == PopFirstN(d, Overflow(d, mc))

\* LruDict.__setitem__
SetItem(d, k, v, mc) == Cull(OdSetItem(d, k, v), mc)

\* LruDict.__getitem__: the dictionary after the call.  lg is the outcome
\* of float(_PY_VERSION[:3]) <= 3.2, which is also true of 3.10 and later
\* ("3.1"): then the key is popped and written again through __setitem__,
\* cull included; otherwise it is moved with move_to_end.
GetItemNoRefresh(d, k, mc, lg) == d
GetItemState(d, k, mc, lg) ==
    IF ~OdHas(d, k)
    THEN d                                  \* KeyError, swallowed
    ELSE IF lg
         THEN IF k # d[Len(d)].key
              THEN SetItem(OdPop(d, k), k, OdValue(d, k), mc)
              ELSE d
         ELSE OdMoveToEnd(d, k)

\* LruDict.__getitem__: the value returned
GetItemRet(d, k) == IF OdHas(d, k) THEN OdValue(d, k) ELSE None

\* the record of a call: none yet
NoOp == [op |-> "init", key |-> 0, value |-> 0, ret |-> None, overflow |-> 0]

IdleLru ==
    /\ max_cache = 0
    /\ legacy = FALSE
    /\ od = <<>>
    /\ lastOp = NoOp
    /\ prevOp = NoOp

----------------------------------------------------------------------------
(* Python integers of the virtual offset codec.  A 64 bit offset does not   *)
(* fit the model checker's integers, so an integer is held as a sign and   *)
(* its magnitude in 16 bit limbs, least significant first, without leading *)
(* zero limbs: [neg |-> FALSE, mag |-> <<0, 1>>] is 65536.                 *)

MaxLimbs == 4       \* arguments have at most MaxLimbs limbs

LimbBase == 65536

\* limb values the arguments are built from
LimbVals == {0, 1, LimbBase - 1}

RECURSIVE Normalize(_)
Normalize(m) ==
    IF m # <<>> /\ m[Len(m)] = 0 THEN Normalize(SubSeq(m, 1, Len(m) - 1))
    ELSE m

Nat16(m) == [neg |-> FALSE, mag |-> Normalize(m)]

Limb(m, i) == IF i <= Len(m) THEN m[i] ELSE 0

\* a >= b on magnitudes
RECURSIVE MagGE(_, _)
MagGE(a, b) ==
    IF Len(a) # Len(b) THEN Len(a) > Len(b)
    ELSE IF a = <<>> THEN TRUE
    ELSE IF a[Len(a)] # b[Len(b)] THEN a[Len(a)] > b[Len(b)]
    ELSE MagGE(SubSeq(a, 1, Len(a) - 1), SubSeq(b, 1, Len(b) - 1))

\* x < 0
IntNegative(x) == x.neg

\* x >= c for a constant c >= 0
IntGE(x, c) == ~x.neg /\ MagGE(x.mag, c.mag)
IntGT(x, c) == ~x.neg /\ x.mag # c.mag /\ MagGE(x.mag, c.mag)

\* a | b and a ^ b on one limb
RECURSIVE BitOr(_, _)
BitOr(a, b) ==
    IF a = 0 THEN b
    ELSE IF b = 0 THEN a
    ELSE (IF a % 2 = 1 \/ b % 2 = 1 THEN 1 ELSE 0) + 2 * BitOr(a \div 2, b \div 2)

RECURSIVE BitXor(_, _)
BitXor(a, b) ==
    IF a = 0 THEN b
    ELSE IF b = 0 THEN a
    ELSE (IF a % 2 # b % 2 THEN 1 ELSE 0) + 2 * BitXor(a \div 2, b \div 2)

\* x << 16, x >> 16, x | y and x ^ y for x, y >= 0
IntShl16(x) == Nat16(<<0>> \o x.mag)

IntShr16(x) == Nat16(IF x.mag = <<>> THEN <<>> ELSE Tail(x.mag))

IntOr(x, y) ==
    Nat16([i \in 1..Max(Len(x.mag), Len(y.mag)) |->
              BitOr(Limb(x.mag, i), Limb(y.mag, i))])

IntXor(x, y) ==
    Nat16([i \in 1..Max(Len(x.mag), Len(y.mag)) |->
              BitXor(Limb(x.mag, i), Limb(y.mag, i))])

\* the literals 65536 and 281474976710656 of make_virtual_offset
Two16 == Nat16(<<0, 1>>)
Two48 == Nat16(<<0, 0, 0, 1>>)

----------------------------------------------------------------------------
(* make_virtual_offset and split_virtual_offset *)

RangeCheckInclusive(x, c) == IntNegative(x) \/ IntGT(x, c)
\* x < 0 or x >= c
OutOfRange(x, c) == IntNegative(x) \/ IntGE(x, c)

\* make_virtual_offset: the ValueError raised or the offset returned
make_virtual_offset(b, w) ==
    IF OutOfRange(w, Two16)
    THEN [err |-> "within_block_offset", val |-> Nat16(<<>>)]
    ELSE IF OutOfRange(b, Two48)
    THEN [err |-> "block_start_offset", val |-> Nat16(<<>>)]
    ELSE [err |-> "", val |-> IntOr(IntShl16(b), w)]

\* split_virtual_offset, for an offset >= 0
SplitNoShiftBack(v) == <<IntShr16(v), IntXor(v, IntShr16(v))>>
split_virtual_offset(v) ==
    LET coffset == IntShr16(v)
        uoffset == IntXor(v, IntShl16(coffset))
    IN  <<coffset, uoffset>>

\* the magnitudes of at most n limbs
Mags(n) == {Normalize(m) : m \in UNION {[1..l -> LimbVals] : l \in 0..n}}

Ints(n) == {[neg |-> s, mag |-> m] : s \in BOOLEAN, m \in Mags(n) \ {<<>>}}
             \cup {Nat16(<<>>)}

IdleVO ==
    /\ vo_pc = "idle"
    /\ block_start_offset = Nat16(<<>>)
    /\ within_block_offset = Nat16(<<>>)
    /\ virtual_offset = [err |-> "", val |-> Nat16(<<>>)]
    /\ vo_split = <<Nat16(<<>>), Nat16(<<>>)>>

\* the arguments: block starts of up to MaxLimbs limbs, offsets within the
\* block of up to 2 limbs, of either sign
InitVO ==
    /\ vo_pc = "start"
    /\ block_start_offset \in Ints(MaxLimbs)
    /\ within_block_offset \in Ints(2)
    /\ virtual_offset = [err |-> "", val |-> Nat16(<<>>)]
    /\ vo_split = <<Nat16(<<>>), Nat16(<<>>)>>

MakeVirtualOffset ==
    /\ vo_pc = "start"
    /\ virtual_offset' =
          make_virtual_offset(block_start_offset, within_block_offset)
    /\ vo_pc' = "made"
    /\ UNCHANGED <<block_start_offset, within_block_offset, vo_split>>
    /\ UNCHANGED <<lruVars, mdVars, cgVars>>

\* the offset that was made is split again
SplitVirtualOffset ==
    /\ vo_pc = "made"
    /\ virtual_offset.err = ""
    /\ vo_split' = split_virtual_offset(virtual_offset.val)
    /\ vo_pc' = "done"
    /\ UNCHANGED <<block_start_offset, within_block_offset, virtual_offset>>
    /\ UNCHANGED <<lruVars, mdVars, cgVars>>

NextVO == MakeVirtualOffset \/ SplitVirtualOffset

----------------------------------------------------------------------------
(* Properties of the virtual offset codec *)

\* x & 0xFFFF for x >= 0
RECURSIVE BitAnd(_, _)
BitAnd(a, b) ==
    IF a = 0 \/ b = 0 THEN 0
    ELSE (IF a % 2 = 1 /\ b % 2 = 1 THEN 1 ELSE 0) + 2 * BitAnd(a \div 2, b \div 2)

Low16(x) == Nat16(<<BitAnd(Limb(x.mag, 1), 65535)>>)

In16(x) == ~x.neg /\ Len(x.mag) <= 1
In48(x) == ~x.neg /\ Len(x.mag) <= 3

\* C5: splitting the offset made from a block start in [0, 2^48) and an
\* offset within the block in [0, 2^16) gives the two back; the second
\* component is the offset's low 16 bits and the first is the offset
\* shifted right by 16.
C5_RoundTrip ==
    vo_pc = "done" =>
        /\ vo_split = <<block_start_offset, within_block_offset>>
        /\ vo_split[2] = Low16(virtual_offset.val)
        /\ vo_split[1] = IntShr16(virtual_offset.val)

\* the largest block start with a non-zero offset within the block
C5_Witness ==
    /\ vo_pc = "done"
    /\ block_start_offset = Nat16(<<65535, 65535, 65535>>)
    /\ within_block_offset = Nat16(<<1>>)
    /\ vo_split = <<block_start_offset, within_block_offset>>

\* C6: make_virtual_offset raises exactly when the offset within the block
\* is outside [0, 2^16) or the block start is outside [0, 2^48), negative
\* values included, and otherwise returns block_start * 2^16 + within_block;
\* (0, 65535) gives 65535 and (2^48 - 1, 0) succeeds, (0, 65536) and
\* (2^48, 0) raise.
C6_RangeChecked ==
    vo_pc # "start" =>
        LET b == block_start_offset
            w == within_block_offset
            r == virtual_offset
        IN  /\ (r.err # "") <=> ~(In16(w) /\ In48(b))
            /\ r.err = "" =>
                  r.val = Nat16(<<Limb(w.mag, 1)>> \o b.mag)
            /\ (b = Nat16(<<>>) /\ w = Nat16(<<65535>>)) =>
                  r = [err |-> "", val |-> Nat16(<<65535>>)]
            /\ (b = Nat16(<<65535, 65535, 65535>>) /\ w = Nat16(<<>>)) =>
                  r.err = ""
            /\ (b = Nat16(<<>>) /\ w = Nat16(<<0, 1>>)) => r.err # ""
            /\ (b = Nat16(<<0, 0, 0, 1>>) /\ w = Nat16(<<>>)) => r.err # ""

\* 2^48 as block start has been rejected
C6_Witness ==
    /\ vo_pc = "made"
    /\ block_start_offset = Nat16(<<0, 0, 0, 1>>)
    /\ within_block_offset = Nat16(<<>>)
    /\ virtual_offset.err = "block_start_offset"

----------------------------------------------------------------------------
(* Python strings, as sequences of one-character strings, and the character *)
(* classes of the re module                                                 *)

MaxSeqLen == 4      \* reads have at most MaxSeqLen bases
MaxTagLen == 5      \* MD tags have at most MaxTagLen characters
MaxCigarLen == 4    \* CIGAR strings have at most MaxCigarLen characters
MaxOps == 2         \* CIGAR lists have at most MaxOps operations

Digits == {"0", "1", "2", "3", "4", "5", "6", "7", "8", "9"}

Letters == {"A", "B", "C", "D", "G", "H", "I", "M", "N", "P", "Q", "S",
            "T", "X"}

\* \d and \w
IsDigit(c) == c \in Digits
IsWord(c) == c \in Digits \cup Letters \cup {"_"}

DigitVal(c) ==
    CASE c = "0" -> 0 [] c = "1" -> 1 [] c = "2" -> 2 [] c = "3" -> 3
      [] c = "4" -> 4 [] c = "5" -> 5 [] c = "6" -> 6 [] c = "7" -> 7
      [] c = "8" -> 8 [] c = "9" -> 9

\* int(s) for a string of digits
RECURSIVE IntOf(_)
IntOf(s) ==
    IF s = <<>> THEN 0
    ELSE 10 * IntOf(SubSeq(s, 1, Len(s) - 1)) + DigitVal(s[Len(s)])

Min(a, b) == IF a <= b THEN a ELSE b

\* s[a:b] for 0 <= a <= b
Slice(s, a, b) == SubSeq(s, Min(a, Len(s)) + 1, Min(b, Len(s)))

\* 'N' * n
RECURSIVE Repeat(_, _)
Repeat(c, n) == IF n <= 0 THEN <<>> ELSE <<c>> \o Repeat(c, n - 1)

\* the last index of the run of digits that starts at s[i]: a greedy \d+
RECURSIVE DigitRunEnd(_, _)
DigitRunEnd(s, i) ==
    IF i < Len(s) /\ IsDigit(s[i + 1]) THEN DigitRunEnd(s, i + 1) ELSE i

\* the aligned read the model's sequences are cut from
Read == <<"A", "C", "G", "T", "G", "G">>

\* the stretches of Read of at most MaxSeqLen bases
SeqInputs ==
    {SubSeq(Read, i, Min(i + n - 1, Len(Read))) :
        i \in 1..Len(Read), n \in 0..MaxSeqLen}

Strings(chars, n) == UNION {[1..l -> chars] : l \in 0..n}

----------------------------------------------------------------------------
(* md_changes *)

\* the last index of the deletion token that starts with the '^' at s[i]:
\* \^\w+? is lazy, so it stops after the first word character
MdDelEnd(s, i) == i + 1

\* the finditer loop from index i of the tag on, with ref_seq and
\* last_md_pos as they stand
RECURSIVE MdLoop(_, _, _, _, _)
MdLoop(seq, tag, i, ref, pos) ==
    IF i > Len(tag) THEN ref
    ELSE IF IsDigit(tag[i])
    THEN LET j == DigitRunEnd(tag, i)
             matches == IntOf(SubSeq(tag, i, j))
         IN  MdLoop(seq, tag, j + 1,
                    ref \o Slice(seq, pos, pos + matches), pos + matches)
    ELSE IF tag[i] = "^" /\ i < Len(tag) /\ IsWord(tag[i + 1])
    THEN LET j == MdDelEnd(tag, i)
         IN  MdLoop(seq, tag, j + 1, ref \o SubSeq(tag, i + 1, j), pos)
    ELSE IF IsWord(tag[i])
    THEN MdLoop(seq, tag, i + 1, ref \o <<tag[i]>>, pos + 1)
    ELSE MdLoop(seq, tag, i + 1, ref, pos)      \* no match here: skipped

md_changes(seq, tag) == MdLoop(seq, tag, 1, <<>>, 0)

MdChars == {"1", "2", "^", "N"}

IdleMD ==
    /\ md_pc = "idle"
    /\ md_seq = <<>>
    /\ md_tag = <<>>
    /\ ref_seq = <<>>

InitMD ==
    /\ md_pc = "start"
    /\ md_seq \in SeqInputs
    /\ md_tag \in Strings(MdChars, MaxTagLen)
    /\ ref_seq = <<>>

MdChanges ==
    /\ md_pc = "start"
    /\ ref_seq' = md_changes(md_seq, md_tag)
    /\ md_pc' = "done"
    /\ UNCHANGED <<md_seq, md_tag>>
    /\ UNCHANGED <<lruVars, voVars, cgVars>>

NextMD == MdChanges

----------------------------------------------------------------------------
(* parse_cigar and cigar_changes *)

\* Python values an operation can be: an int, or a tuple of _CIGAR_OPS
PyInt(n) == [kind |-> "int", name |-> "", id |-> n]
PyOp(name, n) == [kind |-> "tuple", name |-> name, id |-> n]

CigarOpCodes == {"M", "I", "D", "N", "S", "H", "P", "=", "X", "B"}

\* _CIGAR_OPS[c] for c in CigarOpCodes
CIGAR_OPS(c) ==
    CASE c = "M" -> PyOp("BAM_CMATCH", 0)
      [] c = "I" -> PyOp("BAM_CINS", 1)
      [] c = "D" -> PyOp("BAM_CDEL", 2)
      [] c = "N" -> PyOp("BAM_CREF_SKIP", 3)
      [] c = "S" -> PyOp("BAM_CSOFT_CLIP", 4)
      [] c = "H" -> PyOp("BAM_CHARD_CLIP", 5)
      [] c = "P" -> PyOp("BAM_CPAD", 6)
      [] c = "=" -> PyOp("BAM_CEQUAL", 7)
      [] c = "X" -> PyOp("BAM_CDIFF", 8)
      [] c = "B" -> PyOp("BAM_CBACK", 9)

Ok(v) == [err |-> "", val |-> v]
Raised(e) == [err |-> e, val |-> <<>>]

\* the finditer loop of parse_cigar from index i on, with cigar_array as
\* it stands.  (\d+)(\w) takes the longest run of digits that a word
\* character follows: the character after the run, or, when that is no
\* word character, the last digit of a run of two or more.
RECURSIVE ParseLoop(_, _, _)
ParseLoop(s, i, arr) ==
    IF i > Len(s) THEN Ok(arr)
    ELSE IF ~IsDigit(s[i]) THEN ParseLoop(s, i + 1, arr)
    ELSE LET j == DigitRunEnd(s, i)
         IN  IF j < Len(s) /\ IsWord(s[j + 1])
             THEN IF s[j + 1] \in CigarOpCodes
                  THEN ParseLoop(s, j + 2,
                           Append(arr, <<CIGAR_OPS(s[j + 1]),
                                         IntOf(SubSeq(s, i, j))>>))
                  ELSE Raised("KeyError")
             ELSE IF j > i
             THEN Raised("KeyError")        \* the op is the digit s[j]
             ELSE ParseLoop(s, i + 1, arr)

parse_cigar(s) == ParseLoop(s, 1, <<>>)

\* the loop of cigar_changes over the operations from index i on
RECURSIVE CigarLoop(_, _, _, _, _)
CigarLoop(seq, ops, i, ref, pos) ==
    IF i > Len(ops) THEN Ok(ref)
    ELSE LET op == ops[i][1]
             n_ops == ops[i][2]
         IN  IF op \in {PyInt(0), PyInt(7), PyInt(8)}
             THEN CigarLoop(seq, ops, i + 1,
                            ref \o Slice(seq, pos, pos + n_ops), pos + n_ops)
             ELSE IF op \in {PyInt(1), PyInt(4)}
             THEN CigarLoop(seq, ops, i + 1, ref, pos + n_ops)
             ELSE IF op = PyInt(3)
             THEN Raised("UnboundLocalError")   \* tmp_ref_seq is unbound
             ELSE IF op = PyInt(5)
             THEN CigarLoop(seq, ops, i + 1, ref, pos)
             ELSE Raised("ValueError")

\* cigar_changes for a str or a list argument
cigar_changes(seq, c) ==
    IF c.type = "str"
    THEN LET parsed == parse_cigar(c.str)
         IN  IF parsed.err # "" THEN Raised(parsed.err)
             ELSE CigarLoop(seq, parsed.val, 1, <<>>, 0)
    ELSE CigarLoop(seq, c.list, 1, <<>>, 0)

PyStr(s) == [type |-> "str", str |-> s, list |-> <<>>]
PyList(l) == [type |-> "list", str |-> <<>>, list |-> l]

CigarChars == {"2", "4", "M", "I", "=", "Q", ","}

\* operation ids of the lists: the ten kinds and one id outside them
OpIds == 0..10

OpLengths == {1, 2, 4}

CigarLists ==
    UNION {[1..l -> {<<PyInt(o), n>> : o \in OpIds, n \in OpLengths}] :
              l \in 0..MaxOps}

IdleCigar ==
    /\ cg_pc = "idle"
    /\ cg_seq = <<>>
    /\ cigar = PyList(<<>>)
    /\ cigar_array = Ok(<<>>)
    /\ cigar_formatted_ref = Ok(<<>>)

InitCigar ==
    /\ cg_pc = "start"
    /\ cg_seq \in SeqInputs
    /\ cigar \in {PyStr(s) : s \in Strings(CigarChars, MaxCigarLen)}
                   \cup {PyList(l) : l \in CigarLists}
    /\ cigar_array = Ok(<<>>)
    /\ cigar_formatted_ref = Ok(<<>>)

\* parse_cigar(cigar) on its own
ParseCigar ==
    /\ cg_pc = "start"
    /\ cigar.type = "str"
    /\ cigar_array' = parse_cigar(cigar.str)
    /\ cg_pc' = "parsed"
    /\ UNCHANGED <<cg_seq, cigar, cigar_formatted_ref>>
    /\ UNCHANGED <<lruVars, voVars, mdVars>>

\* cigar_changes(seq, cigar)
CigarChanges ==
    /\ cg_pc \in {"start", "parsed"}
    /\ cigar_formatted_ref' = cigar_changes(cg_seq, cigar)
    /\ cg_pc' = "done"
    /\ UNCHANGED <<cg_seq, cigar, cigar_array>>
    /\ UNCHANGED <<lruVars, voVars, mdVars>>

NextCigar == ParseCigar \/ CigarChanges

----------------------------------------------------------------------------
(* Actions of the LruDict specification *)

\* LruDict(max_cache=c) on no initial items, for either interpreter branch
InitLru ==
    /\ max_cache \in 0..MaxCap
    /\ legacy \in BOOLEAN
    /\ od = Cull(<<>>, max_cache)
    /\ lastOp = NoOp
    /\ prevOp = NoOp

\* self[key] = value
LruSetItem(k, v) ==
    /\ od' = SetItem(od, k, v, max_cache)
    /\ lastOp' = [op |-> "put", key |-> k, value |-> v, ret |-> None,
                  overflow |-> Overflow(OdSetItem(od, k, v), max_cache)]
    /\ prevOp' = lastOp
    /\ UNCHANGED <<max_cache, legacy>>
    /\ UNCHANGED <<voVars, mdVars, cgVars>>

\* self[key]
LruGetItem(k) ==
    /\ od' = GetItemState(od, k, max_cache, legacy)
    /\ lastOp' = [op |-> "get", key |-> k, value |-> 0,
                  ret |-> GetItemRet(od, k), overflow |-> 0]
    /\ prevOp' = lastOp
    /\ UNCHANGED <<max_cache, legacy>>
    /\ UNCHANGED <<voVars, mdVars, cgVars>>

PutAny == \E k \in Keys, v \in Values : LruSetItem(k, v)

GetAny == \E k \in Keys : LruGetItem(k)

Init == InitLru /\ IdleVO /\ IdleMD /\ IdleCigar

Next == PutAny \/ GetAny

Spec == Init /\ [][Next]_vars

StartVO == IdleLru /\ InitVO /\ IdleMD /\ IdleCigar

SpecVO == StartVO /\ [][NextVO]_vars

StartMD == IdleLru /\ IdleVO /\ InitMD /\ IdleCigar

SpecMD == StartMD /\ [][NextMD]_vars

StartCigar == IdleLru /\ IdleVO /\ IdleMD /\ InitCigar

SpecCigar == StartCigar /\ [][NextCigar]_vars

----------------------------------------------------------------------------
(* Properties of LruDict *)

\* C1: with a finite capacity max_cache > 0 the dictionary never holds more
\* than max_cache entries, in any state reached from the empty cache by
\* __setitem__ and __getitem__ calls.
C1_SizeWithinCapacity == max_cache > 0 => Len(od) <= max_cache

\* a full cache on which the last write pushed an entry out
C1_Witness ==
    /\ max_cache > 0
    /\ lastOp.op = "put"
    /\ lastOp.overflow > 0
    /\ Len(od) = max_cache

\* the entries of d in recency order once key k has been written with v,
\* when every write refreshes recency
WrittenLast(d, k, v) ==
    Append(IF OdHas(d, k) THEN OdPop(d, k) ELSE d, [key |-> k, value |-> v])

\* C2: a put makes the written key the most recently used entry, for a new
\* key and for an overwritten one alike, and the entries it evicts are
\* exactly the least recently used ones, removed until the size equals the
\* capacity.
C2_PutIsMostRecent ==
    [][lastOp'.op = "put" =>
         LET k == lastOp'.key
             v == lastOp'.value
             w == WrittenLast(od, k, v)
             n == IF max_cache > 0 THEN Max(0, Len(w) - max_cache) ELSE 0
         IN  /\ od'[Len(od')].key = k
             /\ od' = SubSeq(w, n + 1, Len(w))]_vars

\* C3 as stated: a get of a present key returns the stored value, makes the
\* key the most recently used one and leaves the entries as they were, so
\* the next put of a new key that overflows evicts some other key; a get of
\* an absent key returns None and changes nothing.
C3_GetRefreshesAnyCapacity ==
    [][/\ (lastOp'.op = "get" /\ OdHas(od, lastOp'.key)) =>
              /\ lastOp'.ret = OdValue(od, lastOp'.key)
              /\ od'[Len(od')].key = lastOp'.key
              /\ OdItems(od') = OdItems(od)
       /\ (lastOp'.op = "get" /\ ~OdHas(od, lastOp'.key)) =>
              /\ lastOp'.ret = None
              /\ od' = od
       /\ (/\ lastOp.op = "get"
           /\ lastOp.ret # None
           /\ lastOp'.op = "put"
           /\ lastOp'.overflow > 0) =>
              /\ OdHas(od', lastOp.key)
              /\ OdKeys(od) \ OdKeys(od') # {}
      ]_vars

\* C3, amended: the same, where the key that was read survives the next
\* overflowing put of a new key provided the capacity is at least 2.
C3_GetRefreshes ==
    [][/\ (lastOp'.op = "get" /\ OdHas(od, lastOp'.key)) =>
              /\ lastOp'.ret = OdValue(od, lastOp'.key)
              /\ od'[Len(od')].key = lastOp'.key
              /\ OdItems(od') = OdItems(od)
       /\ (lastOp'.op = "get" /\ ~OdHas(od, lastOp'.key)) =>
              /\ lastOp'.ret = None
              /\ od' = od
       /\ (/\ lastOp.op = "get"
           /\ lastOp.ret # None
           /\ lastOp'.op = "put"
           /\ lastOp'.overflow > 0
           /\ max_cache >= 2) =>
              /\ OdHas(od', lastOp.key)
              /\ OdKeys(od) \ OdKeys(od') # {}
              /\ lastOp.key \notin OdKeys(od) \ OdKeys(od')
      ]_vars

\* capacity 2: put(a), put(b), get(a), put(c) has left exactly a and c
C3_Witness ==
    /\ max_cache = 2
    /\ prevOp.op = "get"
    /\ prevOp.ret # None
    /\ lastOp.op = "put"
    /\ lastOp.overflow = 1
    /\ OdKeys(od) = {prevOp.key, lastOp.key}
    /\ prevOp.key # lastOp.key

\* C4: with max_cache = 0 nothing is ever evicted: every entry stays until
\* it is overwritten, and every written key holds the value last written.
C4_UnboundedNeverEvicts ==
    [][max_cache = 0 =>
         /\ lastOp'.overflow = 0
         /\ \A k \in OdKeys(od) :
               /\ OdHas(od', k)
               /\ \/ OdValue(od', k) = OdValue(od, k)
                  \/ (lastOp'.op = "put" /\ lastOp'.key = k)
         /\ lastOp'.op = "put" =>
               /\ OdHas(od', lastOp'.key)
               /\ OdValue(od', lastOp'.key) = lastOp'.value]_vars

\* every key of the model is held at once, more than any finite capacity
\* of the model allows
C4_Witness ==
    /\ max_cache = 0
    /\ lastOp.op = "put"
    /\ Len(od) = MaxKey
    /\ Len(od) > MaxCap

----------------------------------------------------------------------------
(* Properties of md_changes *)

IsLetter(c) == c \in Letters

\* the last index of the run of letters that starts at s[i]
RECURSIVE LetterRunEnd(_, _)
LetterRunEnd(s, i) ==
    IF i < Len(s) /\ IsLetter(s[i + 1]) THEN LetterRunEnd(s, i + 1) ELSE i

\* every character of the tag from index i on belongs to a match run, to a
\* deletion of one or more letters, or is a substitution letter
RECURSIVE MdWellFormed(_, _)
MdWellFormed(tag, i) ==
    IF i > Len(tag) THEN TRUE
    ELSE IF IsDigit(tag[i]) THEN MdWellFormed(tag, DigitRunEnd(tag, i) + 1)
    ELSE IF tag[i] = "^"
    THEN /\ i < Len(tag)
         /\ IsLetter(tag[i + 1])
         /\ MdWellFormed(tag, LetterRunEnd(tag, i + 1) + 1)
    ELSE IsLetter(tag[i]) /\ MdWellFormed(tag, i + 1)

\* the reference the claimed token walk builds: a deletion is the '^' and
\* all the letters after it, taken as one token
RECURSIVE MdWalk(_, _, _, _, _)
MdWalk(seq, tag, i, ref, pos) ==
    IF i > Len(tag) THEN ref
    ELSE IF IsDigit(tag[i])
    THEN LET j == DigitRunEnd(tag, i)
             n == IntOf(SubSeq(tag, i, j))
         IN  MdWalk(seq, tag, j + 1, ref \o Slice(seq, pos, pos + n), pos + n)
    ELSE IF tag[i] = "^"
    THEN LET j == LetterRunEnd(tag, i + 1)
         IN  MdWalk(seq, tag, j + 1, ref \o SubSeq(tag, i + 1, j), pos)
    ELSE MdWalk(seq, tag, i + 1, ref \o <<tag[i]>>, pos + 1)

\* C7: md_changes walks the tokens of the tag with a cursor from 0: a match
\* run n appends seq[cursor:cursor+n] and advances by n, a deletion appends
\* all the letters after its '^' and does not advance, a substitution
\* appends its letter and advances by 1; "ACGT" with "2^NN2" gives "ACNNGT".
C7_MdWalksTokens ==
    (md_pc = "done" /\ MdWellFormed(md_tag, 1)) =>
        ref_seq = MdWalk(md_seq, md_tag, 1, <<>>, 0)

----------------------------------------------------------------------------
(* Properties of parse_cigar and cigar_changes *)

\* the reference the claimed walk over a list of operations builds
RECURSIVE CigarWalk(_, _, _, _, _)
CigarWalk(seq, ops, i, ref, pos) ==
    IF i > Len(ops) THEN Ok(ref)
    ELSE LET id == ops[i][1].id
             n == ops[i][2]
         IN  IF id \in {0, 7, 8}
             THEN CigarWalk(seq, ops, i + 1,
                            ref \o Slice(seq, pos, pos + n), pos + n)
             ELSE IF id \in {1, 4}
             THEN CigarWalk(seq, ops, i + 1, ref, pos + n)
             ELSE IF id \in {2, 3}
             THEN CigarWalk(seq, ops, i + 1, ref \o Repeat("N", n), pos)
             ELSE IF id \in {5, 6, 9}
             THEN CigarWalk(seq, ops, i + 1, ref, pos)
             ELSE Raised("ValueError")

\* C8: on a list of operations cigar_changes succeeds for all ten kinds:
\* M, = and X append seq[cursor:cursor+n] and advance the cursor, I and S
\* only advance it, D and N append n 'N' without advancing, H, P and B do
\* nothing; it fails only for a kind outside the ten.
C8_CigarChangesAllKinds ==
    (cg_pc = "done" /\ cigar.type = "list") =>
        LET claimed == CigarWalk(cg_seq, cigar.list, 1, <<>>, 0)
        IN  /\ (cigar_formatted_ref.err = "") <=> (claimed.err = "")
            /\ claimed.err = "" => cigar_formatted_ref.val = claimed.val

\* the operations a text denotes when all of it is <digits><opcode> tokens,
\* as <<id, length>> pairs, and an error otherwise
RECURSIVE StrictParse(_, _, _)
StrictParse(s, i, arr) ==
    IF i > Len(s) THEN Ok(arr)
    ELSE IF ~IsDigit(s[i]) THEN Raised("MalformedCigar")
    ELSE LET j == DigitRunEnd(s, i)
         IN  IF j < Len(s) /\ s[j + 1] \in CigarOpCodes
             THEN StrictParse(s, j + 2,
                      Append(arr, <<CIGAR_OPS(s[j + 1]).id,
                                    IntOf(SubSeq(s, i, j))>>))
             ELSE Raised("MalformedCigar")

\* C9: parse_cigar returns one operation per <digits><opcode> token, in
\* order, when the whole text consists of such tokens with an opcode among
\* M I D N S H P = X B, and fails otherwise: no character is skipped and
\* '=' is accepted.
C9_ParseCigarStrict ==
    cg_pc = "parsed" =>
        LET claimed == StrictParse(cigar.str, 1, <<>>)
        IN  /\ (cigar_array.err = "") <=> (claimed.err = "")
            /\ claimed.err = "" =>
                  /\ Len(cigar_array.val) = Len(claimed.val)
                  /\ \A i \in 1..Len(claimed.val) :
                        /\ cigar_array.val[i][1].id = claimed.val[i][1]
                        /\ cigar_array.val[i][2] = claimed.val[i][2]

\* the list of (operation id, length) pairs a well-formed text denotes
DenotedList(s) ==
    LET d == StrictParse(s, 1, <<>>).val
    IN  [i \in 1..Len(d) |-> <<PyInt(d[i][1]), d[i][2]>>]

\* C10: for a well-formed CIGAR string cigar_changes returns what it
\* returns for the list of (operation id, length) pairs the string denotes.
C10_StringPathAgrees ==
    (/\ cg_pc = "done"
     /\ cigar.type = "str"
     /\ StrictParse(cigar.str, 1, <<>>).err = "") =>
        cigar_formatted_ref = cigar_changes(cg_seq, PyList(DenotedList(cigar.str)))

====
